---- MODULE Spec2Model ----
(***************************************************************************)
(* Model of the M|R Walls shop drawing QC tool.                            *)
(*                                                                         *)
(*   Spec        : the page component ShopDrawingQC of src/app/page.tsx:   *)
(*                 its React state, the processFile calls in flight and    *)
(*                 the one runAnalysis call that may be in flight.         *)
(*   HandlerSpec : the four POST handlers of the analyze route (route.ts,  *)
(*                 the blob-URL and form handlers of part_002, the form    *)
(*                 handler of part_003), each up to and after its call of  *)
(*                 the model, and the upload and upload-token handlers of  *)
(*                 part_001.                                               *)
(***************************************************************************)
EXTENDS Integers, Sequences, FiniteSets, TLC

(***************************************************************************)
(* Bounds of the model.                                                    *)
(***************************************************************************)
\* processFile calls that may be awaiting compressPDF at the same time
MaxPending == 2
\* lexemes in a text returned by the model
MaxTextLen == 5

(***************************************************************************)
(* Program constants.                                                      *)
(***************************************************************************)
MiB == 1048576
TARGET_SIZE == 25 * MiB
MAX_FILE_SIZE == 32 * MiB
\* the size ceiling of the analyze route that takes the PDF in the request body
MAX_FILE_SIZE_MB == 11

PDF == "application/pdf"

(***************************************************************************)
(* Values.                                                                 *)
(***************************************************************************)
\* File | null.  content tells the bytes of a file the user picked from
\* the bytes pdf-lib wrote.
NoFile == [name |-> "", size |-> 0, type |-> "", content |-> "null"]

\* the files the user may pick or drop
SelectableFiles ==
  { [name |-> "small.pdf", size |-> 2 * MiB,           type |-> PDF,         content |-> "original"],
    [name |-> "edge.pdf",  size |-> TARGET_SIZE,       type |-> PDF,         content |-> "original"],
    [name |-> "large.pdf", size |-> TARGET_SIZE + 1,   type |-> PDF,         content |-> "original"],
    [name |-> "huge.pdf",  size |-> 60 * MiB,          type |-> PDF,         content |-> "original"],
    [name |-> "photo.png", size |-> 2 * MiB,           type |-> "image/png", content |-> "original"] }

\* the sizes pdfDoc.save() may produce
SavedSizes == { 20 * MiB, MAX_FILE_SIZE, MAX_FILE_SIZE + 1 }

\* string | null for the error state; mb10 is the number a message embeds,
\* in tenths of a megabyte
NoError == [isNull |-> TRUE, msg |-> "", mb10 |-> 0]
Message(m) == [isNull |-> FALSE, msg |-> m, mb10 |-> 0]
SizeMessage(m, tenths) == [isNull |-> FALSE, msg |-> m, mb10 |-> tenths]

\* { original, compressed } | null
NoCompression == [isNull |-> TRUE, original |-> 0, compressed |-> 0]

\* CheckItem[] | undefined: a list of a result the response may leave out
Absent == [present |-> FALSE, items |-> << >>]
ListOf(items) == [present |-> TRUE, items |-> items]
ListValues == { Absent, ListOf(<< >>), ListOf(<< "item" >>) }
LISTS == {"criticalIssues", "warnings", "passed", "manualReview"}

\* AnalysisResults | null
NoResults ==
  [isNull |-> TRUE, overallStatus |-> "", criticalIssues |-> Absent, warnings |-> Absent,
   passed |-> Absent, manualReview |-> Absent]
ResultValues ==
  { [isNull |-> FALSE, overallStatus |-> s, criticalIssues |-> c, warnings |-> w,
     passed |-> p, manualReview |-> m] :
      s \in {"pass", "fail"}, c \in ListValues, w \in ListValues,
      p \in ListValues, m \in ListValues }

NoAnswers == [isBacklit |-> FALSE, hasCutouts |-> FALSE, hasCorners |-> FALSE, hasLogos |-> FALSE]
QUESTIONS == {"isBacklit", "hasCutouts", "hasCorners", "hasLogos"}

\* what a rejected promise carries: an Error with a message, or some other value
ErrorOf(m) == [isError |-> TRUE, message |-> m]
NotAnError == [isError |-> FALSE, message |-> ""]
NoThrown == [isError |-> FALSE, message |-> "nothing thrown"]

\* rejections of upload(): the token route or the blob store failed
UploadRejections ==
  { ErrorOf("Vercel Blob: Failed to retrieve the client token"), NotAnError }
\* rejections of fetch('/api/analyze')
FetchRejections == { ErrorOf("Failed to fetch") }
\* rejection of analyzeResponse.json() when the body is not JSON
BodyRejections == { ErrorOf("Unexpected token < in JSON at position 0") }
\* the error field of a body answered with a status that is not OK; "" is
\* a body without that field
ErrorBodies ==
  { "", "Failed to fetch PDF from storage", "Could not parse JSON from Claude response." }

NoBlob == [pathname |-> "", stored |-> NoFile]
NoBody == [blobUrl |-> NoBlob, filename |-> "", projectType |-> NoAnswers]

\* no runAnalysis call has been made yet
NoRun ==
  [pc |-> "none", file |-> NoFile, answers |-> NoAnswers, uploads |-> 0,
   requests |-> 0, blob |-> NoBlob, body |-> NoBody, ok |-> FALSE,
   failedAt |-> "", thrown |-> NoThrown]

VARIABLES
  step,               \* 'upload' | 'questions' | 'analyzing' | 'results'
  file,               \* File | null
  projectAnswers,
  results,
  error,
  progress,
  statusText,
  isCompressing,
  compressionResult,
  pending,            \* the files of the processFile calls awaiting compressPDF, oldest first
  compressOutcome,    \* how the compressPDF call that settled last ended
  lastSelected,       \* the file processFile was called with last, since the last reset
  run,                \* the latest runAnalysis call: its closure and where it stands
  srv,                \* the route handler that is running: where it stands, what it holds
  request,            \* the request POST was called with, until the handler has read it
  modelCall,          \* the message anthropic.messages.create was called with and not yet answered
  claude,             \* what anthropic.messages.create ended with
  response            \* the response the handler returned

pageVars ==
  << step, file, projectAnswers, results, error, progress, statusText,
     isCompressing, compressionResult, pending, compressOutcome, lastSelected, run >>

serverVars == << srv, request, modelCall, claude, response >>

vars == << pageVars, serverVars >>

PageInit ==
  /\ step = "upload"
  /\ file = NoFile
  /\ projectAnswers = NoAnswers
  /\ results = NoResults
  /\ error = NoError
  /\ progress = 0
  /\ statusText = ""
  /\ isCompressing = FALSE
  /\ compressionResult = NoCompression
  /\ pending = << >>
  /\ compressOutcome = "none"
  /\ lastSelected = NoFile
  /\ run = NoRun

(***************************************************************************)
(* Selecting a file: processFile.                                          *)
(***************************************************************************)
\* (bytes / 1024 / 1024).toFixed(1), as a number of tenths
ToFixed1(bytes) == (bytes * 10 + MiB \div 2) \div MiB

RemoveAt(s, i) == [j \in 1..(Len(s) - 1) |-> IF j < i THEN s[j] ELSE s[j + 1]]

validateFile(uploadedFile) ==
  IF uploadedFile.type # PDF THEN Message("Please upload a PDF file") ELSE NoError

\* mutant: the two sizes are returned in each other's place
compressPDFSwapped(f, savedSize) ==
  LET compressedFile == [name |-> f.name, size |-> savedSize, type |-> PDF, content |-> "resaved"]
  IN  [compressedFile |-> compressedFile,
       originalSize   |-> compressedFile.size,
       compressedSize |-> f.size]

\* the value compressPDF resolves with when pdfDoc.save() writes savedSize bytes
compressPDF(f, savedSize) ==
  LET compressedFile == [name |-> f.name, size |-> savedSize, type |-> PDF, content |-> "resaved"]
  IN  [compressedFile |-> compressedFile,
       originalSize   |-> f.size,
       compressedSize |-> compressedFile.size]

\* mutant: the threshold is compared in the wrong unit
NeedsCompressionWrongUnit(uploadedFile) == uploadedFile.size > 25

\* does processFile hand the file to compressPDF?
NeedsCompression(uploadedFile) == uploadedFile.size > TARGET_SIZE

\* mutant: the ceiling is a megabyte too generous
StillTooLargeOffByOne(compressedFile) == compressedFile.size > MAX_FILE_SIZE + MiB

\* is the output of compressPDF refused?
StillTooLarge(compressedFile) == compressedFile.size > MAX_FILE_SIZE

\* processFile up to its first await (or to its end, when it awaits nothing)
processFile(uploadedFile) ==
  IF ~validateFile(uploadedFile).isNull
  THEN /\ error' = validateFile(uploadedFile)
       /\ file' = NoFile
       /\ lastSelected' = uploadedFile
       /\ UNCHANGED << isCompressing, compressionResult, pending, compressOutcome >>
  ELSE IF NeedsCompression(uploadedFile)
  THEN /\ Len(pending) < MaxPending
       /\ isCompressing' = TRUE
       /\ error' = NoError
       /\ compressionResult' = NoCompression
       /\ pending' = Append(pending, uploadedFile)
       /\ lastSelected' = uploadedFile
       /\ UNCHANGED << file, compressOutcome >>
  ELSE /\ file' = uploadedFile
       /\ error' = NoError
       /\ compressionResult' = NoCompression
       /\ lastSelected' = uploadedFile
       /\ UNCHANGED << isCompressing, pending, compressOutcome >>

\* a file is dropped on the upload area (the drop is not gated by isCompressing)
handleDrop ==
  /\ UNCHANGED serverVars
  /\ step = "upload"
  /\ \E droppedFile \in SelectableFiles : processFile(droppedFile)
  /\ UNCHANGED << step, projectAnswers, results, progress, statusText, run >>

\* a file is picked in the file input (disabled while isCompressing)
handleFileUpload ==
  /\ UNCHANGED serverVars
  /\ step = "upload"
  /\ ~isCompressing
  /\ \E uploadedFile \in SelectableFiles : processFile(uploadedFile)
  /\ UNCHANGED << step, projectAnswers, results, progress, statusText, run >>

\* what processFile does with the value compressPDF resolved with
CompressionDone(result) ==
  /\ compressionResult' =
       [isNull |-> FALSE, original |-> result.originalSize, compressed |-> result.compressedSize]
  /\ IF StillTooLarge(result.compressedFile)
     THEN /\ error' = SizeMessage("PDF is {sizeMB}MB after compression (max 32MB). Please compress at smallpdf.com first.",
                                  ToFixed1(result.compressedFile.size))
          /\ file' = NoFile
     ELSE /\ file' = result.compressedFile
          /\ error' = NoError
  /\ isCompressing' = FALSE

\* mutant: the catch block shows the message and keeps the file it had
CompressionFailedKeepsFile ==
  /\ error' = Message("Failed to compress PDF. Please try compressing manually at smallpdf.com")
  /\ isCompressing' = FALSE
  /\ UNCHANGED << file, compressionResult >>

\* what processFile does when compressPDF rejected
CompressionFailed ==
  /\ error' = Message("Failed to compress PDF. Please try compressing manually at smallpdf.com")
  /\ file' = NoFile
  /\ isCompressing' = FALSE
  /\ UNCHANGED compressionResult

\* the compressPDF call of a pending processFile resolves
CompressResolves ==
  /\ UNCHANGED serverVars
  /\ \E i \in 1..Len(pending), savedSize \in SavedSizes :
    /\ CompressionDone(compressPDF(pending[i], savedSize))
    /\ pending' = RemoveAt(pending, i)
    /\ compressOutcome' = "resolved"
    /\ UNCHANGED << step, projectAnswers, results, progress, statusText, lastSelected, run >>

\* the compressPDF call of a pending processFile rejects (the bytes are no PDF)
CompressRejects ==
  /\ UNCHANGED serverVars
  /\ \E i \in 1..Len(pending) :
    /\ CompressionFailed
    /\ pending' = RemoveAt(pending, i)
    /\ compressOutcome' = "rejected"
    /\ UNCHANGED << step, projectAnswers, results, progress, statusText, lastSelected, run >>

(***************************************************************************)
(* The buttons of the upload and questions steps.                          *)
(***************************************************************************)
\* Continue is rendered when file && !isCompressing
Continue ==
  /\ UNCHANGED serverVars
  /\ step = "upload"
  /\ file # NoFile
  /\ ~isCompressing
  /\ step' = "questions"
  /\ UNCHANGED << file, projectAnswers, results, error, progress, statusText,
                  isCompressing, compressionResult, pending, compressOutcome,
                  lastSelected, run >>

Back ==
  /\ UNCHANGED serverVars
  /\ step = "questions"
  /\ step' = "upload"
  /\ UNCHANGED << file, projectAnswers, results, error, progress, statusText,
                  isCompressing, compressionResult, pending, compressOutcome,
                  lastSelected, run >>

\* mutant: the questions can still be toggled while the analysis runs
toggleAnswerWhileAnalyzing ==
  /\ UNCHANGED serverVars
  /\ step \in {"questions", "analyzing"}
  /\ \E questionId \in QUESTIONS :
       projectAnswers' = [projectAnswers EXCEPT ![questionId] = ~projectAnswers[questionId]]
  /\ UNCHANGED << step, file, results, error, progress, statusText,
                  isCompressing, compressionResult, pending, compressOutcome,
                  lastSelected, run >>

toggleAnswer ==
  /\ UNCHANGED serverVars
  /\ step = "questions"
  /\ \E questionId \in QUESTIONS :
       projectAnswers' = [projectAnswers EXCEPT ![questionId] = ~projectAnswers[questionId]]
  /\ UNCHANGED << step, file, results, error, progress, statusText,
                  isCompressing, compressionResult, pending, compressOutcome,
                  lastSelected, run >>

(***************************************************************************)
(* runAnalysis: upload to the blob store, then the analyze request.        *)
(***************************************************************************)
\* mutant: the catch block shows the generic text whatever was thrown
CatchMessageGeneric(thrown) == Message("Analysis failed")

\* the message the catch block shows for a thrown value
CatchMessage(thrown) ==
  IF thrown.isError THEN Message(thrown.message) ELSE Message("Analysis failed")

\* the Error thrown for a response that is not OK
ResponseError(errorField) ==
  ErrorOf(IF errorField # "" THEN errorField ELSE "Analysis failed")

\* the blob the store answers an upload of f with
StoredBlob(f) == [pathname |-> f.name, stored |-> f]

\* mutant: the request is sent without the blob's URL
AnalyzeBodyWithoutBlob(blob, f, answers) ==
  [blobUrl |-> NoBlob, filename |-> f.name, projectType |-> answers]

\* the body of the analyze request
AnalyzeBody(blob, f, answers) ==
  [blobUrl |-> blob, filename |-> f.name, projectType |-> answers]

\* a runAnalysis call that returned: its closure is gone, what is kept is how
\* it ended and the calls it made
Settled(pc, at, thrown) ==
  [NoRun EXCEPT !.pc = pc, !.failedAt = at, !.thrown = thrown,
                !.uploads = run.uploads, !.requests = run.requests]

\* the step the catch block leaves the page on
StepAfterFailure == "upload"

\* mutant: the catch block also puts the progress bar back to 0
CaughtResetsProgress(thrown, at) ==
  /\ error' = CatchMessage(thrown)
  /\ step' = StepAfterFailure
  /\ progress' = 0
  /\ run' = Settled("failed", at, thrown)
  /\ UNCHANGED << file, projectAnswers, results, statusText,
                  isCompressing, compressionResult, pending, compressOutcome,
                  lastSelected >>

\* the catch block of runAnalysis, for a value thrown while awaiting `at`
Caught(thrown, at) ==
  /\ error' = CatchMessage(thrown)
  /\ step' = StepAfterFailure
  /\ run' = Settled("failed", at, thrown)
  /\ UNCHANGED << file, projectAnswers, results, progress, statusText,
                  isCompressing, compressionResult, pending, compressOutcome,
                  lastSelected >>

\* Run Analysis is clicked: runAnalysis up to its first await, the upload
runAnalysis ==
  /\ UNCHANGED serverVars
  /\ step = "questions"
  /\ file # NoFile
  /\ step' = "analyzing"
  /\ progress' = 10
  /\ error' = NoError
  /\ statusText' = "Uploading PDF to storage..."
  /\ run' = [NoRun EXCEPT !.pc = "uploading", !.file = file,
                          !.answers = projectAnswers, !.uploads = 1]
  /\ UNCHANGED << file, projectAnswers, results, isCompressing,
                  compressionResult, pending, compressOutcome,
                  lastSelected >>

\* mutant: a rejected upload is tried once more
UploadRejectsRetrying ==
  /\ UNCHANGED serverVars
  /\ run.pc = "uploading"
  /\ IF run.uploads < 2
     THEN /\ run' = [run EXCEPT !.uploads = run.uploads + 1]
          /\ UNCHANGED << step, error >>
     ELSE \E thrown \in UploadRejections :
            /\ error' = CatchMessage(thrown)
            /\ step' = StepAfterFailure
            /\ run' = Settled("failed", "upload", thrown)
  /\ UNCHANGED << file, projectAnswers, results, progress, statusText,
                  isCompressing, compressionResult, pending, compressOutcome,
                  lastSelected >>

\* upload() resolved: the analyze request is sent with the blob's URL
UploadResolves ==
  /\ UNCHANGED serverVars
  /\ run.pc = "uploading"
  /\ progress' = 30
  /\ statusText' = "Analyzing with Claude AI..."
  /\ run' = [run EXCEPT !.pc = "requesting",
                        !.blob = StoredBlob(run.file),
                        !.body = AnalyzeBody(StoredBlob(run.file), run.file, run.answers),
                        !.requests = run.requests + 1]
  /\ UNCHANGED << step, file, projectAnswers, results, error,
                  isCompressing, compressionResult, pending, compressOutcome,
                  lastSelected >>

UploadRejects ==
  /\ UNCHANGED serverVars
  /\ run.pc = "uploading"
  /\ \E thrown \in UploadRejections : Caught(thrown, "upload")

\* fetch resolved with a response, OK or not
FetchResolves ==
  /\ UNCHANGED serverVars
  /\ run.pc = "requesting"
  /\ progress' = 70
  /\ statusText' = "Processing results..."
  /\ \E ok \in BOOLEAN : run' = [run EXCEPT !.pc = "readingBody", !.ok = ok]
  /\ UNCHANGED << step, file, projectAnswers, results, error,
                  isCompressing, compressionResult, pending, compressOutcome,
                  lastSelected >>

FetchRejects ==
  /\ UNCHANGED serverVars
  /\ run.pc = "requesting"
  /\ \E thrown \in FetchRejections : Caught(thrown, "fetch")

\* mutant: the step is set without the results being stored
AnalysisSucceedsWithoutStoring ==
  /\ UNCHANGED serverVars
  /\ run.pc = "readingBody"
  /\ run.ok
  /\ progress' = 100
  /\ step' = "results"
  /\ run' = Settled("done", "", NoThrown)
  /\ UNCHANGED << file, projectAnswers, results, error, statusText,
                  isCompressing, compressionResult, pending, compressOutcome,
                  lastSelected >>

\* the body of an OK response was read
AnalysisSucceeds ==
  /\ UNCHANGED serverVars
  /\ run.pc = "readingBody"
  /\ run.ok
  /\ \E data \in [results : ResultValues] :
       /\ results' = data.results
       /\ progress' = 100
       /\ step' = "results"
       /\ run' = Settled("done", "", NoThrown)
  /\ UNCHANGED << file, projectAnswers, error, statusText,
                  isCompressing, compressionResult, pending, compressOutcome,
                  lastSelected >>

\* the body of a response that is not OK was read
AnalysisRefused ==
  /\ UNCHANGED serverVars
  /\ run.pc = "readingBody"
  /\ ~run.ok
  /\ \E errorField \in ErrorBodies : Caught(ResponseError(errorField), "response")

\* analyzeResponse.json() rejected
BodyRejects ==
  /\ UNCHANGED serverVars
  /\ run.pc = "readingBody"
  /\ \E thrown \in BodyRejections : Caught(thrown, "body")

\* mutant: New Check forgets to discard the document
resetKeepsFile ==
  /\ UNCHANGED serverVars
  /\ step = "results"
  /\ results # NoResults
  /\ step' = "upload"
  /\ results' = NoResults
  /\ error' = NoError
  /\ progress' = 0
  /\ projectAnswers' = NoAnswers
  /\ compressionResult' = NoCompression
  /\ lastSelected' = NoFile
  /\ UNCHANGED << file, statusText, isCompressing, pending, compressOutcome, run >>

\* New Check, the one button of the results view
reset ==
  /\ UNCHANGED serverVars
  /\ step = "results"
  /\ results # NoResults
  /\ step' = "upload"
  /\ file' = NoFile
  /\ results' = NoResults
  /\ error' = NoError
  /\ progress' = 0
  /\ projectAnswers' = NoAnswers
  /\ compressionResult' = NoCompression
  /\ lastSelected' = NoFile
  /\ UNCHANGED << statusText, isCompressing, pending, compressOutcome, run >>

(***************************************************************************)
(* The analyze route handlers.                                             *)
(*                                                                         *)
(* A text is a sequence of lexemes: "{" and "}", "k" for a key with its    *)
(* colon ("k":), "v" for a scalar value (1), " " for white space, "p" for  *)
(* a character of prose and "forbidden" for that word of prose.  A message *)
(* is a sequence of words.                                                 *)
(***************************************************************************)
Chars == {"{", "}", "k", "v", " ", "p", "forbidden"}
Texts == UNION { [1..n -> Chars] : n \in 0..MaxTextLen }

Min(S) == CHOOSE x \in S : \A y \in S : x <= y
Max(S) == CHOOSE x \in S : \A y \in S : y <= x

\* String.prototype.trim
trim(t) ==
  LET inked == { i \in 1..Len(t) : t[i] # " " }
  IN  IF inked = {} THEN << >> ELSE SubSeq(t, Min(inked), Max(inked))

\* responseText.startsWith('{')
StartsWithBrace(t) == Len(t) > 0 /\ t[1] = "{"

\* mutant: the quantifier is lazy, the match ends at the first '}'
RegexMatchLazy(t) ==
  LET opens == { i \in 1..Len(t) : t[i] = "{" }
  IN  IF opens = {}
      THEN [found |-> FALSE, text |-> << >>]
      ELSE LET closes == { j \in (Min(opens) + 1)..Len(t) : t[j] = "}" }
           IN  IF closes = {}
               THEN [found |-> FALSE, text |-> << >>]
               ELSE [found |-> TRUE, text |-> SubSeq(t, Min(opens), Min(closes))]

\* responseText.match(/\{[\s\S]*\}/): from the first '{' to the last '}'
RegexMatch(t) ==
  LET opens == { i \in 1..Len(t) : t[i] = "{" }
  IN  IF opens = {}
      THEN [found |-> FALSE, text |-> << >>]
      ELSE LET closes == { j \in (Min(opens) + 1)..Len(t) : t[j] = "}" }
           IN  IF closes = {}
               THEN [found |-> FALSE, text |-> << >>]
               ELSE [found |-> TRUE, text |-> SubSeq(t, Min(opens), Max(closes))]

RECURSIVE SkipSpace(_, _)
SkipSpace(t, i) == IF i <= Len(t) /\ t[i] = " " THEN SkipSpace(t, i + 1) ELSE i

\* the JSON grammar on the lexemes: the index after the value that starts at
\* i (white space skipped), 0 when no value starts there
RECURSIVE ParseValue(_, _)
ParseValue(t, i) ==
  LET j == SkipSpace(t, i)
  IN  IF j > Len(t) THEN 0
      ELSE IF t[j] = "v" THEN j + 1
      ELSE IF t[j] # "{" THEN 0
      ELSE LET a == SkipSpace(t, j + 1)
           IN  IF a > Len(t) THEN 0
               ELSE IF t[a] = "}" THEN a + 1
               ELSE IF t[a] # "k" THEN 0
               ELSE LET b == ParseValue(t, a + 1)
                        c == SkipSpace(t, b)
                    IN  IF b = 0 THEN 0
                        ELSE IF c <= Len(t) /\ t[c] = "}" THEN c + 1
                        ELSE 0

\* JSON.parse: the value (written without white space), or a SyntaxError
JSONParse(t) ==
  LET e == ParseValue(t, 1)
  IN  IF e # 0 /\ SkipSpace(t, e) = Len(t) + 1
      THEN [ok |-> TRUE, value |-> SelectSeq(t, LAMBDA c : c # " ")]
      ELSE [ok |-> FALSE, value |-> << >>]

Undefined == [defined |-> FALSE, value |-> << >>]
Defined(v) == [defined |-> TRUE, value |-> v]

\* messages
MsgNoText == << "No", "text", "response", "from", "Claude" >>
MsgInvalidJSON == << "Invalid", "JSON", "in", "Claude", "response" >>
MsgNoParse == << "Could", "not", "parse", "JSON", "from", "Claude", "response." >>
MsgNoMatch == << "Could", "not", "parse", "JSON", "response", "from", "Claude" >>
MsgSyntaxError == << "Unexpected", "token", "in", "JSON" >>
MsgAnalysisFailed == << "Analysis", "failed" >>
MsgFetchFailed == << "Failed", "to", "fetch", "PDF", "from", "storage" >>
MsgNoBlobUrl == << "No", "blob", "URL", "provided" >>
MsgNoPdf == << "No", "PDF", "file", "provided" >>
MsgAddCredits ==
  << "Anthropic", "API", "credit", "balance", "is", "too", "low.", "Please", "add",
     "credits", "at", "console.anthropic.com." >>
MsgTooComplex ==
  << "PDF", "too", "large", "or", "complex", "to", "process.", "Please", "compress",
     "the", "PDF", "and", "try", "again." >>
MsgTooLargeForAI ==
  << "PDF", "too", "large", "for", "AI", "processing.", "Please", "compress", "to",
     "under", "5MB" >>
MsgTooLargeFor11 ==
  << "PDF", "too", "large", "for", "processing.", "Please", "compress", "to",
     "under", "11MB" >>
MsgOver5(tenths) == << "PDF", "is", tenths, "MB", "which", "is", "too", "large." >>
MsgOver11(tenths) == << "PDF", "is", tenths, "MB", "but", "max", "is", "11MB." >>

\* a thrown value: an Error with a message, or something else
Thrown(m) == [isError |-> TRUE, message |-> m]
ThrownOther == [isError |-> FALSE, message |-> << >>]
Nothing == [isError |-> FALSE, message |-> << "nothing" >>]

\* what anthropic.messages.create may reject with
ProviderFailures ==
  { Thrown(<< "400", "Your", "credit", "balance", "is", "too", "low" >>),
    Thrown(<< "400", "invalid_request_error", "Could", "not", "process", "PDF" >>),
    Thrown(<< "413", "Request", "Entity", "Too", "Large" >>),
    Thrown(<< "Connection", "error." >>),
    ThrownOther }

\* what anthropic.messages.create ends with: a rejection, a response
\* without a text block, or a response whose first text block is text
ModelOutcomes ==
  { [kind |-> "throws", text |-> << >>, thrown |-> e] : e \in ProviderFailures }
    \cup { [kind |-> "notext", text |-> << >>, thrown |-> Nothing] }
    \cup { [kind |-> "text", text |-> t, thrown |-> Nothing] : t \in Texts }
NoOutcome == [kind |-> "none", text |-> << >>, thrown |-> Nothing]

\* String.prototype.toLowerCase, word by word
LowerWord(w) ==
  CASE w = "Request" -> "request"
    [] w = "Entity"  -> "entity"
    [] w = "Too"     -> "too"
    [] w = "Large"   -> "large"
    [] w = "Could"   -> "could"
    [] w = "PDF"     -> "pdf"
    [] w = "Your"    -> "your"
    [] w = "JSON"    -> "json"
    [] w = "Claude"  -> "claude"
    [] w = "Invalid" -> "invalid"
    [] w = "No"      -> "no"
    [] w = "Failed"  -> "failed"
    [] w = "Connection" -> "connection"
    [] w = "Unexpected" -> "unexpected"
    [] w = "Analysis" -> "analysis"
    [] OTHER -> w
toLowerCase(m) == [i \in 1..Len(m) |-> LowerWord(m[i])]

\* String.prototype.includes
includes(m, phrase) ==
  \E i \in 1..(Len(m) - Len(phrase) + 1) : SubSeq(m, i, i + Len(phrase) - 1) = phrase

\* error instanceof Error ? error.message : 'Analysis failed'
errorMessageOf(thrown) == IF thrown.isError THEN thrown.message ELSE MsgAnalysisFailed

\* NextResponse.json
NoResponse == [status |-> 0, body |-> [none |-> TRUE]]
\* (a property whose value is undefined is left out of the body)
SuccessResponse(filename, parsed) ==
  [status |-> 200,
   body |-> IF parsed.defined
            THEN [success |-> TRUE, filename |-> filename, results |-> parsed.value]
            ELSE [success |-> TRUE, filename |-> filename]]
\* mutant: the error body also says success: false
ErrorResponseWithSuccess(status, message) ==
  [status |-> status, body |-> [success |-> FALSE, error |-> message]]

ErrorResponse(status, message) ==
  [status |-> status, body |-> [error |-> message]]

\* the hints appended to the instruction
HintBacklit == " This is a BACKLIT wall - check all backlit requirements carefully."
HintCutouts == " This has CUTOUTS - verify cutout border and fabrication notes."
HintCorners == " This has CORNERS - check butt joint dimension adjustments."

\* mutant: the fourth answer gets a hint of its own
contextNoteWithLogos(projectType) ==
  (IF projectType.isBacklit THEN << HintBacklit >> ELSE << >>)
    \o (IF projectType.hasCutouts THEN << HintCutouts >> ELSE << >>)
    \o (IF projectType.hasCorners THEN << HintCorners >> ELSE << >>)
    \o (IF projectType.hasLogos THEN << " This has LOGOS - check the inlay notes." >> ELSE << >>)

\* contextNote, for a projectType that is an object
contextNote(projectType) ==
  (IF projectType.isBacklit THEN << HintBacklit >> ELSE << >>)
    \o (IF projectType.hasCutouts THEN << HintCutouts >> ELSE << >>)
    \o (IF projectType.hasCorners THEN << HintCorners >> ELSE << >>)

\* the text block sent to the model
Instruction(note, reminder) ==
  << "CHECKLIST_PROMPT" >>
    \o (IF note # << >> THEN << "\n\nPROJECT CONTEXT:" >> \o note ELSE << >>)
    \o (IF reminder THEN << "\n\nREMEMBER: Output ONLY the JSON object. No other text." >> ELSE << >>)

NoCall == << >>

\* projectType as it arrives: the field may be absent, be text that is no
\* JSON, be null, or be an object of flags
ProjectTypes ==
  { [kind |-> k, flags |-> NoAnswers] : k \in {"absent", "malformed", "null"} }
    \cup { [kind |-> "object", flags |-> f] : f \in [QUESTIONS -> BOOLEAN] }

\* the body of a request to the route that takes a blob URL
BlobRequests ==
  [ readable : BOOLEAN, blobUrl : {"", "https://blob/drawing.pdf"},
    filename : {"", "drawing.pdf"},
    projectType : { p \in ProjectTypes : p.kind # "malformed" },
    fetch : {"ok", "not ok", "rejects"} ]

\* the form of a request to a route that takes the PDF itself
FormSizes == { 2 * MiB, 5 * MiB, 5 * MiB + 1, MAX_FILE_SIZE_MB * MiB, MAX_FILE_SIZE_MB * MiB + 1 }
FormRequests ==
  [ readable : BOOLEAN, hasPdf : BOOLEAN, name : {"drawing.pdf"}, size : FormSizes,
    projectType : ProjectTypes ]

\* the form of a request to the upload route, and how put() ends
UploadRequests ==
  [ readable : BOOLEAN, hasPdf : BOOLEAN, name : {"drawing.pdf"}, size : {2 * MiB},
    put : {"ok", "rejects"} ]

\* the body of a request to the upload-token route, and how handleUpload() ends
TokenRequests == [ readable : BOOLEAN, handleUpload : {"ok", "rejects"} ]

NoRequest == [none |-> TRUE]

\* the handler is not running
Idle == [pc |-> "idle", route |-> "", filename |-> "", fetched |-> FALSE, put |-> FALSE,
         modelCalled |-> FALSE, method |-> 0]

ServerInit ==
  /\ srv = Idle
  /\ request = NoRequest
  /\ modelCall = NoCall
  /\ claude = NoOutcome
  /\ response = NoResponse

Init == PageInit /\ ServerInit

(***************************************************************************)
(* Extraction of the result from the model's text.                         *)
(***************************************************************************)
\* what an extraction ends with: results, or a thrown Error; method is the
\* last method that ran
Extracted(v, method) == [results |-> Defined(v), thrown |-> Nothing, method |-> method]
ExtractionThrew(m, method) == [results |-> Undefined, thrown |-> Thrown(m), method |-> method]

\* mutant: the test of the first character is inverted
DirectParseInverted(responseText) ==
  IF ~StartsWithBrace(responseText) /\ JSONParse(responseText).ok
  THEN Defined(JSONParse(responseText).value)
  ELSE Undefined

\* mutant: the whole text is parsed whatever its first character
DirectParseWithoutBraceTest(responseText) ==
  IF JSONParse(responseText).ok
  THEN Defined(JSONParse(responseText).value)
  ELSE Undefined

\* method 1: the whole text, when it starts with '{'
DirectParse(responseText) ==
  IF StartsWithBrace(responseText) /\ JSONParse(responseText).ok
  THEN Defined(JSONParse(responseText).value)
  ELSE Undefined

\* nothing thrown and results still undefined
NothingExtracted(method) == [results |-> Undefined, thrown |-> Nothing, method |-> method]

\* methods 1 and 2 of the routes that try the whole text first
TwoStepExtract(responseText) ==
  LET direct == DirectParse(responseText)
      jsonMatch == RegexMatch(responseText)
  IN  IF direct.defined THEN Extracted(direct.value, 1)
      ELSE IF jsonMatch.found
           THEN IF JSONParse(jsonMatch.text).ok
                THEN Extracted(JSONParse(jsonMatch.text).value, 2)
                ELSE ExtractionThrew(MsgInvalidJSON, 2)
           ELSE NothingExtracted(2)

\* mutant: method 3 is missing
RequireResultsMissing(x, notFound) == x

\* method 3: if (!results) throw
RequireResults(x, notFound) ==
  IF x.thrown = Nothing /\ ~x.results.defined THEN ExtractionThrew(notFound, 3) ELSE x

\* the extraction of src/app/api/analyze/route.ts: the regex alone
RegexExtract(text) ==
  LET jsonMatch == RegexMatch(text)
  IN  IF ~jsonMatch.found THEN ExtractionThrew(MsgNoMatch, 2)
      ELSE IF JSONParse(jsonMatch.text).ok
           THEN Extracted(JSONParse(jsonMatch.text).value, 2)
           ELSE ExtractionThrew(MsgSyntaxError, 2)

\* responseText.substring(0, 100)
Prefix100(responseText) ==
  SubSeq(responseText, 1, IF Len(responseText) < 100 THEN Len(responseText) ELSE 100)

\* the message of method 3 in the form route of part_002
MsgNoParseWithPrefix(responseText) ==
  MsgNoParse \o << "Response", "started", "with:" >> \o Prefix100(responseText)

(***************************************************************************)
(* The catch blocks.                                                       *)
(***************************************************************************)
CatchRoute(thrown) == ErrorResponse(500, errorMessageOf(thrown))

CatchBlob(thrown) ==
  LET errorMessage == errorMessageOf(thrown)
      lower == toLowerCase(errorMessage)
  IN  IF includes(lower, << "credit", "balance" >>) \/ includes(lower, << "billing" >>)
      THEN ErrorResponse(402, MsgAddCredits)
      ELSE IF includes(lower, << "could", "not", "process", "pdf" >>)
                \/ includes(lower, << "invalid_request_error" >>)
      THEN ErrorResponse(400, MsgTooComplex)
      ELSE ErrorResponse(500, errorMessage)

CatchForm5(thrown) ==
  LET errorMessage == errorMessageOf(thrown)
      lower == toLowerCase(errorMessage)
  IN  IF includes(lower, << "forbidden" >>) \/ includes(lower, << "too", "large" >>)
           \/ includes(lower, << "request", "entity", "too", "large" >>)
      THEN ErrorResponse(413, MsgTooLargeForAI)
      ELSE ErrorResponse(500, errorMessage)

CatchForm11(thrown) ==
  LET errorMessage == errorMessageOf(thrown)
      lower == toLowerCase(errorMessage)
  IN  IF includes(lower, << "request", "entity", "too", "large" >>)
           \/ includes(lower, << "too", "large" >>)
           \/ includes(lower, << "413" >>)
           \/ includes(lower, << "forbidden" >>)
      THEN ErrorResponse(413, MsgTooLargeFor11)
      ELSE ErrorResponse(500, errorMessage)

(***************************************************************************)
(* The handlers after anthropic.messages.create settled.                   *)
(***************************************************************************)
\* [response, method] of a handler that ended
Ended(resp, method) == [response |-> resp, method |-> method]

\* src/app/api/analyze/route.ts
RouteFinish(outcome, filename) ==
  IF outcome.kind = "throws" THEN Ended(CatchRoute(outcome.thrown), 0)
  ELSE IF outcome.kind = "notext" THEN Ended(CatchRoute(Thrown(MsgNoText)), 0)
  ELSE LET x == RegexExtract(outcome.text)
       IN  IF x.thrown = Nothing
           THEN Ended(SuccessResponse(filename, x.results), x.method)
           ELSE Ended(CatchRoute(x.thrown), x.method)

\* the route of part_002 that takes a blob URL
BlobFinish(outcome, filename) ==
  IF outcome.kind = "throws" THEN Ended(CatchBlob(outcome.thrown), 0)
  ELSE IF outcome.kind = "notext" THEN Ended(CatchBlob(Thrown(MsgNoText)), 0)
  ELSE LET x == RequireResults(TwoStepExtract(trim(outcome.text)), MsgNoParse)
       IN  IF x.thrown = Nothing
           THEN Ended(SuccessResponse(IF filename # "" THEN filename ELSE "document.pdf",
                                      x.results), x.method)
           ELSE Ended(CatchBlob(x.thrown), x.method)

\* the form route of part_002
Form5Finish(outcome, filename) ==
  IF outcome.kind = "throws" THEN Ended(CatchForm5(outcome.thrown), 0)
  ELSE IF outcome.kind = "notext" THEN Ended(CatchForm5(Thrown(MsgNoText)), 0)
  ELSE LET x == RequireResults(TwoStepExtract(trim(outcome.text)),
                               MsgNoParseWithPrefix(trim(outcome.text)))
       IN  IF x.thrown = Nothing
           THEN Ended(SuccessResponse(filename, x.results), x.method)
           ELSE Ended(CatchForm5(x.thrown), x.method)

\* the form route of part_003
Form11Finish(outcome, filename) ==
  IF outcome.kind = "throws" THEN Ended(CatchForm11(outcome.thrown), 0)
  ELSE IF outcome.kind = "notext" THEN Ended(CatchForm11(Thrown(MsgNoText)), 0)
  ELSE LET x == RequireResults(TwoStepExtract(trim(outcome.text)), MsgNoParse)
       IN  IF x.thrown = Nothing
           THEN Ended(SuccessResponse(filename, x.results), x.method)
           ELSE Ended(CatchForm11(x.thrown), x.method)

\* anthropic.messages.create settles and the handler runs to its end
Reply(ended) ==
  /\ srv' = [srv EXCEPT !.pc = "responded", !.method = ended.method]
  /\ response' = ended.response
  /\ UNCHANGED request
  /\ modelCall' = NoCall
  /\ UNCHANGED pageVars

RouteReply ==
  /\ srv.pc = "calling"
  /\ srv.route = "route"
  /\ \E outcome \in ModelOutcomes :
       claude' = outcome /\ Reply(RouteFinish(outcome, srv.filename))

BlobReply ==
  /\ srv.pc = "calling"
  /\ srv.route = "blob"
  /\ \E outcome \in ModelOutcomes :
       claude' = outcome /\ Reply(BlobFinish(outcome, srv.filename))

Form5Reply ==
  /\ srv.pc = "calling"
  /\ srv.route = "form5"
  /\ \E outcome \in ModelOutcomes :
       claude' = outcome /\ Reply(Form5Finish(outcome, srv.filename))

Form11Reply ==
  /\ srv.pc = "calling"
  /\ srv.route = "form11"
  /\ \E outcome \in ModelOutcomes :
       claude' = outcome /\ Reply(Form11Finish(outcome, srv.filename))

(***************************************************************************)
(* The handlers up to anthropic.messages.create.                           *)
(***************************************************************************)
\* the handler returns a response without calling the model
Respond(route, resp, fetched) ==
  /\ srv' = [Idle EXCEPT !.pc = "responded", !.route = route, !.fetched = fetched]
  /\ response' = resp
  /\ request' = NoRequest
  /\ UNCHANGED << modelCall, claude >>

\* the handler calls the model and awaits it
Call(route, filename, text, fetched) ==
  /\ srv' = [Idle EXCEPT !.pc = "calling", !.route = route, !.filename = filename,
                         !.fetched = fetched, !.modelCalled = TRUE]
  /\ modelCall' = text
  /\ request' = NoRequest
  /\ UNCHANGED << claude, response >>

\* a form route up to the size check: formData(), JSON.parse of projectType,
\* the test of the pdf field.  "go on" when none of them ended the handler
FormIntake(req) ==
  IF ~req.readable THEN Thrown(<< "Failed", "to", "parse", "body", "as", "FormData." >>)
  ELSE IF req.projectType.kind = "malformed" THEN Thrown(MsgSyntaxError)
  ELSE Nothing

\* contextNote of a form route: projectType.isBacklit throws on null
FormNoteThrows(req) == req.projectType.kind = "null"
MsgNullRead == << "Cannot", "read", "properties", "of", "null" >>

\* JSON.parse(formData.get('projectType') || '{}')
FormFlags(req) == IF req.projectType.kind = "object" THEN req.projectType.flags ELSE NoAnswers

\* projectType?.isBacklit and the like, for a body of the blob route
BlobFlags(req) == IF req.projectType.kind = "object" THEN req.projectType.flags ELSE NoAnswers

\* the requests a route may be called with
RequestsOf(route) ==
  CASE route = "blob" -> BlobRequests
    [] route = "upload" -> UploadRequests
    [] route = "uploadToken" -> TokenRequests
    [] OTHER -> FormRequests

Routes == {"route", "blob", "form5", "form11", "upload", "uploadToken"}

\* a request arrives and POST is called with it
Receive ==
  /\ srv.pc = "idle"
  /\ UNCHANGED pageVars
  /\ \E route \in Routes : \E req \in RequestsOf(route) :
       /\ srv' = [Idle EXCEPT !.pc = "received", !.route = route]
       /\ request' = req
  /\ UNCHANGED << modelCall, claude, response >>

RoutePOST ==
  /\ srv.pc = "received"
  /\ srv.route = "route"
  /\ UNCHANGED pageVars
  /\ LET req == request IN
       IF FormIntake(req) # Nothing THEN Respond("route", CatchRoute(FormIntake(req)), FALSE)
       ELSE IF ~req.hasPdf THEN Respond("route", ErrorResponse(400, MsgNoPdf), FALSE)
       ELSE IF FormNoteThrows(req) THEN Respond("route", CatchRoute(Thrown(MsgNullRead)), FALSE)
       ELSE Call("route", req.name, Instruction(contextNote(FormFlags(req)), FALSE), FALSE)

\* mutant: pdfResponse.ok is not tested
BlobPOSTIgnoresStatus ==
  /\ srv.pc = "received"
  /\ srv.route = "blob"
  /\ UNCHANGED pageVars
  /\ LET req == request IN
       IF ~req.readable THEN Respond("blob", CatchBlob(Thrown(MsgSyntaxError)), FALSE)
       ELSE IF req.blobUrl = "" THEN Respond("blob", ErrorResponse(400, MsgNoBlobUrl), FALSE)
       ELSE IF req.fetch = "rejects"
            THEN Respond("blob", CatchBlob(Thrown(<< "fetch", "failed" >>)), TRUE)
       ELSE Call("blob", req.filename, Instruction(contextNote(BlobFlags(req)), TRUE), TRUE)

BlobPOST ==
  /\ srv.pc = "received"
  /\ srv.route = "blob"
  /\ UNCHANGED pageVars
  /\ LET req == request IN
       IF ~req.readable THEN Respond("blob", CatchBlob(Thrown(MsgSyntaxError)), FALSE)
       ELSE IF req.blobUrl = "" THEN Respond("blob", ErrorResponse(400, MsgNoBlobUrl), FALSE)
       ELSE IF req.fetch = "rejects"
            THEN Respond("blob", CatchBlob(Thrown(<< "fetch", "failed" >>)), TRUE)
       ELSE IF req.fetch = "not ok"
            THEN Respond("blob", CatchBlob(Thrown(MsgFetchFailed)), TRUE)
       ELSE Call("blob", req.filename, Instruction(contextNote(BlobFlags(req)), TRUE), TRUE)

Form5POST ==
  /\ srv.pc = "received"
  /\ srv.route = "form5"
  /\ UNCHANGED pageVars
  /\ LET req == request IN
       IF FormIntake(req) # Nothing THEN Respond("form5", CatchForm5(FormIntake(req)), FALSE)
       ELSE IF ~req.hasPdf THEN Respond("form5", ErrorResponse(400, MsgNoPdf), FALSE)
       ELSE IF req.size > 5 * MiB
            THEN Respond("form5", ErrorResponse(413, MsgOver5(ToString(ToFixed1(req.size)))), FALSE)
       ELSE IF FormNoteThrows(req) THEN Respond("form5", CatchForm5(Thrown(MsgNullRead)), FALSE)
       ELSE Call("form5", req.name, Instruction(contextNote(FormFlags(req)), TRUE), FALSE)

Form11POST ==
  /\ srv.pc = "received"
  /\ srv.route = "form11"
  /\ UNCHANGED pageVars
  /\ LET req == request IN
       IF FormIntake(req) # Nothing THEN Respond("form11", CatchForm11(FormIntake(req)), FALSE)
       ELSE IF ~req.hasPdf THEN Respond("form11", ErrorResponse(400, MsgNoPdf), FALSE)
       ELSE IF req.size > MAX_FILE_SIZE_MB * MiB
            THEN Respond("form11", ErrorResponse(413, MsgOver11(ToString(ToFixed1(req.size)))), FALSE)
       ELSE IF FormNoteThrows(req) THEN Respond("form11", CatchForm11(Thrown(MsgNullRead)), FALSE)
       ELSE Call("form11", req.name, Instruction(contextNote(FormFlags(req)), TRUE), FALSE)

(***************************************************************************)
(* The upload routes.                                                      *)
(***************************************************************************)
MsgNoFile == << "No", "file", "provided" >>
MsgUploadFailed == << "Upload", "failed" >>
MsgPutFailed == << "Vercel", "Blob:", "Access", "denied" >>

\* error instanceof Error ? error.message : 'Upload failed'
CatchUpload(thrown) ==
  ErrorResponse(500, IF thrown.isError THEN thrown.message ELSE MsgUploadFailed)

\* the body of the upload route's success response
UploadedResponse(name, size) ==
  [status |-> 200,
   body |-> [success |-> TRUE, url |-> "https://blob/" \o name, filename |-> name, size |-> size]]

\* the upload route: formData(), the test of the pdf field, put()
UploadPOST ==
  /\ srv.pc = "received"
  /\ srv.route = "upload"
  /\ UNCHANGED pageVars
  /\ UNCHANGED << modelCall, claude >>
  /\ request' = NoRequest
  /\ LET req == request IN
       IF ~req.readable
       THEN /\ srv' = [srv EXCEPT !.pc = "responded"]
            /\ response' = CatchUpload(Thrown(<< "Failed", "to", "parse", "body", "as", "FormData." >>))
       ELSE IF ~req.hasPdf
       THEN /\ srv' = [srv EXCEPT !.pc = "responded"]
            /\ response' = ErrorResponse(400, MsgNoFile)
       ELSE IF req.put = "rejects"
       THEN /\ srv' = [srv EXCEPT !.pc = "responded", !.put = TRUE]
            /\ response' = CatchUpload(Thrown(MsgPutFailed))
       ELSE /\ srv' = [srv EXCEPT !.pc = "responded", !.put = TRUE, !.filename = req.name]
            /\ response' = UploadedResponse(req.name, req.size)

\* the upload-token route: request.json() is awaited before the try block,
\* so its rejection rejects the promise POST returned
UploadTokenPOST ==
  /\ srv.pc = "received"
  /\ srv.route = "uploadToken"
  /\ UNCHANGED pageVars
  /\ UNCHANGED << modelCall, claude >>
  /\ request' = NoRequest
  /\ LET req == request IN
       IF ~req.readable
       THEN /\ srv' = [srv EXCEPT !.pc = "threw"]
            /\ UNCHANGED response
       ELSE IF req.handleUpload = "rejects"
       THEN /\ srv' = [srv EXCEPT !.pc = "responded"]
            /\ response' = CatchUpload(Thrown(MsgPutFailed))
       ELSE /\ srv' = [srv EXCEPT !.pc = "responded"]
            /\ response' = [status |-> 200, body |-> [type |-> "blob.generate-client-token"]]

HandlerNext ==
  \/ Receive
  \/ UploadPOST
  \/ UploadTokenPOST
  \/ RoutePOST
  \/ RouteReply
  \/ BlobPOST
  \/ BlobReply
  \/ Form5POST
  \/ Form5Reply
  \/ Form11POST
  \/ Form11Reply

HandlerSpec == Init /\ [][HandlerNext]_vars


(***************************************************************************)
(* The page: next-state relation.                                          *)
(***************************************************************************)
\* mutant: length is read without the optional chaining; -1 stands for the
\* TypeError of reading it from undefined
CountUnguarded(list) == IF list.present THEN Len(list.items) ELSE -1

\* results.<list>?.length || 0
Count(list) == IF list.present THEN Len(list.items) ELSE 0

\* results.<list> && results.<list>.length > 0 && (the section): the items
\* the section lists, none when the section is not rendered
SectionItems(list) == IF list.present /\ Len(list.items) > 0 THEN list.items ELSE << >>

\* what the component renders of results
ResultsView ==
  IF step = "results" /\ results # NoResults
  THEN [rendered |-> TRUE,
        totals |-> [l \in LISTS |-> Count(results[l])],
        sections |-> [l \in LISTS |-> SectionItems(results[l])]]
  ELSE [rendered |-> FALSE,
        totals |-> [l \in LISTS |-> 0],
        sections |-> [l \in LISTS |-> << >>]]

Next ==
  \/ handleDrop
  \/ handleFileUpload
  \/ CompressResolves
  \/ CompressRejects
  \/ Continue
  \/ Back
  \/ toggleAnswer
  \/ runAnalysis
  \/ UploadResolves
  \/ UploadRejects
  \/ FetchResolves
  \/ FetchRejects
  \/ AnalysisSucceeds
  \/ AnalysisRefused
  \/ BodyRejects
  \/ reset

Spec == Init /\ [][Next]_vars

(***************************************************************************)
(* The page and the handlers together.  They share no variable, so each is *)
(* run while the other is at rest.                                         *)
(***************************************************************************)
SystemNext ==
  \/ ServerInit /\ Next
  \/ PageInit /\ HandlerNext

SystemSpec == Init /\ [][SystemNext]_vars

TypeOK ==
  /\ step \in {"upload", "questions", "analyzing", "results"}
  /\ progress \in {0, 10, 30, 70, 100}
  /\ isCompressing \in BOOLEAN
  /\ Len(pending) <= MaxPending
  /\ run.pc \in {"none", "uploading", "requesting", "readingBody", "done", "failed"}

(***************************************************************************)
(* Properties of the page (checked under Spec).                            *)
(***************************************************************************)
InFlight == run.pc \in {"uploading", "requesting", "readingBody"}

\* the effect of reset on the state it sets
ResetEffect ==
  /\ file' = NoFile
  /\ results' = NoResults
  /\ error' = NoError
  /\ progress' = 0
  /\ projectAnswers' = NoAnswers
  /\ compressionResult' = NoCompression

\* C1: a run that fails (the upload throws, the analyze request throws, the
\* response is not OK or its body cannot be read) ends on step 'upload' with
\* error set to the message of what was thrown ('Analysis failed' when the
\* thrown value is no Error), and it leaves results as it was.
C1_FailedRunRevertsToUpload ==
  [][ (run.pc # "failed" /\ run'.pc = "failed")
        => /\ step' = "upload"
           /\ error' = [isNull |-> FALSE,
                        msg |-> IF run'.thrown.isError THEN run'.thrown.message
                                                       ELSE "Analysis failed",
                        mb10 |-> 0]
           /\ results' = results
           /\ results' = NoResults ]_vars

C1_Witness ==
  /\ run.pc = "failed"
  /\ run.failedAt = "response"
  /\ step = "upload"
  /\ error = Message("Failed to fetch PDF from storage")
  /\ results = NoResults

\* C2 as stated: a request that was started returns to the upload step only
\* through reset.
C2_OnlyResetReturnsToUpload ==
  [][ (step \in {"analyzing", "results"} /\ step' = "upload") => ResetEffect ]_vars

\* C2, amended: the results step is left only through reset (a failed run
\* returns to the upload step by itself, see C1).
C2_ResultsLeftOnlyByReset ==
  [][ step = "results" => (step' = "results" \/ (step' = "upload" /\ ResetEffect)) ]_vars

C2_Witness ==
  /\ run.pc = "done"
  /\ step = "upload"
  /\ file = NoFile
  /\ results = NoResults

\* C3: one runAnalysis call issues at most one blob upload and at most one
\* analyze request, the analyze request only after the upload resolved, and
\* nothing is issued again after a failure.
C3_SequentialNoRetry ==
  /\ run.uploads <= 1
  /\ run.requests <= 1
  /\ run.requests <= run.uploads
  /\ run.pc = "uploading" => run.requests = 0
  /\ (run.pc = "failed" /\ run.failedAt = "upload") => (run.uploads = 1 /\ run.requests = 0)
  /\ (run.pc = "failed" /\ run.failedAt # "upload") => (run.uploads = 1 /\ run.requests = 1)
  /\ run.pc \in {"requesting", "readingBody", "done"} => (run.uploads = 1 /\ run.requests = 1)

C3_Witness ==
  /\ run.pc = "failed"
  /\ run.failedAt = "upload"
  /\ run.uploads = 1
  /\ run.requests = 0

\* C4: the current file is null or at most 32 MiB, so is the file of a run,
\* and while the last compression output shown is above 32 MiB the file is
\* null and an error is set.
C4_NothingAboveHardMaximum ==
  /\ file = NoFile \/ file.size <= 32 * 1048576
  /\ InFlight => (run.file # NoFile /\ run.file.size <= 32 * 1048576)
  /\ (~compressionResult.isNull /\ compressionResult.compressed > 32 * 1048576)
       => (file = NoFile /\ ~error.isNull)

C4_Witness ==
  /\ compressOutcome = "resolved"
  /\ compressionResult.compressed = 32 * 1048576 + 1
  /\ file = NoFile
  /\ error.mb10 = 320

\* C5: a PDF below 25 MiB is never given to compressPDF, and a run whose
\* document was selected below 25 MiB uploads and analyzes the selected file
\* itself.
C5_SmallFilesUntouched ==
  /\ \A i \in 1..Len(pending) : ~(pending[i].size < 25 * 1048576)
  /\ \A f \in SelectableFiles :
       (f.size < 25 * 1048576 /\ InFlight /\ run.file.name = f.name)
         => /\ run.file = f
            /\ run.pc # "uploading" => run.blob.stored = f

C5_Witness ==
  /\ run.pc = "requesting"
  /\ run.file.name = "small.pdf"
  /\ run.blob.stored \in SelectableFiles

\* C6: when compressPDF rejects, processFile sets the compress-manually
\* message, sets the file to null and clears isCompressing; a file that was
\* given to compressPDF is never the document of a run.
C6_FailedCompressionDropsFile ==
  /\ [][ (Len(pending') < Len(pending) /\ compressOutcome' = "rejected")
           => /\ error' = Message("Failed to compress PDF. Please try compressing manually at smallpdf.com")
              /\ file' = NoFile
              /\ ~isCompressing' ]_vars
  /\ [](InFlight => (run.file.content = "original" => run.file.size <= 25 * 1048576))

C6_Witness ==
  /\ compressOutcome = "rejected"
  /\ error = Message("Failed to compress PDF. Please try compressing manually at smallpdf.com")
  /\ file = NoFile
  /\ ~isCompressing

C12_MissingListsAreEmpty ==
  /\ [][ (run.pc = "readingBody" /\ run'.pc = "done")
           => (step' = "results" /\ results' \in ResultValues /\ error' = error) ]_vars
  /\ []( (step = "results" /\ results # NoResults)
           => /\ ResultsView.rendered
              /\ \A l \in LISTS :
                   ~results[l].present
                     => (ResultsView.totals[l] = 0 /\ ResultsView.sections[l] = << >>) )

C12_Witness ==
  /\ step = "results"
  /\ run.pc = "done"
  /\ ~results.criticalIssues.present
  /\ ~results.manualReview.present
  /\ results.warnings = ListOf(<< "item" >>)
  /\ ResultsView.totals = [l \in LISTS |-> IF l = "warnings" THEN 1 ELSE 0]
  /\ ResultsView.sections.criticalIssues = << >>

\* C19: progress stays within 0..100; while a run is in flight, its settling
\* step included, it never decreases; it becomes 100 only in the step in
\* which the run succeeds; and once no run is in flight it changes only when
\* the next run starts or by reset.
C19_ProgressMonotonic ==
  /\ [](progress \in 0..100)
  /\ [][ InFlight => progress' >= progress ]_vars
  /\ [][ (progress' = 100 /\ progress # 100)
           => (run.pc = "readingBody" /\ run'.pc = "done" /\ step' = "results") ]_vars
  /\ [][ (~InFlight /\ progress' # progress)
           => (run'.pc = "uploading" \/ (step = "results" /\ ResetEffect)) ]_vars

C19_Witness ==
  /\ run.pc = "failed"
  /\ run.failedAt = "body"
  /\ progress = 70
  /\ step = "upload"
  /\ pending # << >>

\* C20: projectAnswers does not change in a step taken from step
\* 'analyzing'; a run holds projectAnswers as it was when Run Analysis was
\* clicked, and the projectType of its analyze request is that value.
C20_AnswersFixedWhileAnalyzing ==
  /\ [][ step = "analyzing" => projectAnswers' = projectAnswers ]_vars
  /\ [][ (run.pc # "uploading" /\ run'.pc = "uploading") => run'.answers = projectAnswers ]_vars
  /\ []( run.pc \in {"requesting", "readingBody"}
           => (run.body.projectType = run.answers /\ run.body.projectType = projectAnswers) )

C20_Witness ==
  /\ step = "analyzing"
  /\ run.pc = "requesting"
  /\ projectAnswers.isBacklit /\ projectAnswers.hasLogos /\ ~projectAnswers.hasCorners
  /\ run.body.projectType = projectAnswers

\* a compressPDF call has just resolved
CompressJustResolved == Len(pending') < Len(pending) /\ compressOutcome' = "resolved"

\* C21: when compressPDF resolves, its output becomes the current file only
\* if it is smaller than the file it was made from; otherwise that file
\* itself becomes the current file.
C21_ReplacedOnlyIfSmaller ==
  [][ CompressJustResolved
        => /\ file'.content = "resaved"
                => compressionResult'.compressed < compressionResult'.original
           /\ compressionResult'.compressed >= compressionResult'.original
                => (file'.content = "original" /\ file'.size = compressionResult'.original) ]_vars

\* C22: when compressPDF resolves for one of the pending files, the original
\* size stored in compressionResult is the size of that file and the
\* compressed size stored is the size of the output: the size of the new
\* current file, or the size the error names when the output is refused.
C22_ReportedSizes ==
  [][ CompressJustResolved
        => /\ ~compressionResult'.isNull
           /\ \E i \in 1..Len(pending) :
                /\ pending' = RemoveAt(pending, i)
                /\ compressionResult'.original = pending[i].size
                /\ pending[i].size > TARGET_SIZE
           /\ compressionResult'.compressed \in SavedSizes
           /\ IF file' # NoFile
              THEN file'.size = compressionResult'.compressed /\ file'.content = "resaved"
              ELSE error'.mb10 = ToFixed1(compressionResult'.compressed) ]_vars

C22_Witness ==
  /\ compressOutcome = "resolved"
  /\ compressionResult = [isNull |-> FALSE, original |-> 60 * MiB, compressed |-> 20 * MiB]
  /\ file = [name |-> "huge.pdf", size |-> 20 * MiB, type |-> PDF, content |-> "resaved"]
  /\ pending = << >>

\* C24: step becomes 'results' only from 'analyzing', in the step in which
\* the body of an OK analyze response was read and its results value stored;
\* while step is 'results', results is not null and stays that value.
C24_ResultsOnlyAfterSuccess ==
  /\ [][ (step' = "results" /\ step # "results")
           => /\ step = "analyzing"
              /\ run.pc = "readingBody" /\ run.ok
              /\ run'.pc = "done"
              /\ results' \in ResultValues ]_vars
  /\ [][ (step = "results" /\ step' = "results") => results' = results ]_vars
  /\ []( step = "results" => (results # NoResults /\ ~results.isNull /\ run.pc = "done") )

C24_Witness ==
  /\ step = "results"
  /\ run.pc = "done"
  /\ progress = 100
  /\ results.overallStatus = "fail"
  /\ results.criticalIssues = ListOf(<< "item" >>)
  /\ file # NoFile

\* C25: once no processFile call is pending, the current file (when there
\* is one) and the sizes in compressionResult (when it is set) come from the
\* file that was selected last.
C25_LatestSelectionWins ==
  (pending = << >> /\ lastSelected # NoFile)
    => /\ file = NoFile \/ file.name = lastSelected.name
       /\ compressionResult.isNull \/ compressionResult.original = lastSelected.size

\* C26: on the steps 'questions' and 'analyzing' a file is selected and no
\* compressPDF call is pending.
C26_NoCompressionPastUpload ==
  step \in {"questions", "analyzing"} => (file # NoFile /\ pending = << >>)

(***************************************************************************)
(* Properties of the analyze route handlers (checked under HandlerSpec).   *)
(***************************************************************************)
\* the handler has answered a request in which the model returned text
AnsweredText == srv.pc = "responded" /\ claude.kind = "text"

TwoStepRoutes == {"blob", "form5", "form11"}

\* the braces of a text, and the part from its first to its last brace
Braces(t) == { i \in 1..Len(t) : t[i] \in {"{", "}"} }
Span(t) == SubSeq(t, Min(Braces(t)), Max(Braces(t)))

\* prose (anything but braces) around one span that opens with '{', closes
\* with '}' and is a JSON object
ProseAroundObject(t) ==
  /\ Braces(t) # {}
  /\ t[Min(Braces(t))] = "{"
  /\ t[Max(Braces(t))] = "}"
  /\ JSONParse(Span(t)).ok

\* C8: when the trimmed text of the model begins with '{' and parses as a
\* whole, a route that tries the whole text first returns that parse, and
\* the last method it ran is method 1 (the regex is not run).
C8_DirectParseWins ==
  (/\ AnsweredText
   /\ srv.route \in TwoStepRoutes
   /\ StartsWithBrace(trim(claude.text))
   /\ JSONParse(trim(claude.text)).ok)
    => /\ response.status = 200
       /\ DOMAIN response.body = {"success", "filename", "results"}
       /\ response.body.results = JSONParse(trim(claude.text)).value
       /\ srv.method = 1

C8_Witness ==
  /\ AnsweredText
  /\ srv.route = "blob"
  /\ claude.text = << " ", "{", "k", "v", "}" >>
  /\ response.status = 200
  /\ response.body.results = << "{", "k", "v", "}" >>
  /\ srv.method = 1

\* C9: when the text of the model is prose without braces around one span
\* that is a JSON object, every route returns the parse of exactly that span;
\* it is the regex that finds it whenever the prose is more than white space.
C9_RegexRecoversSpan ==
  (AnsweredText /\ ProseAroundObject(claude.text))
    => /\ response.status = 200
       /\ DOMAIN response.body = {"success", "filename", "results"}
       /\ response.body.results = JSONParse(Span(claude.text)).value
       /\ (trim(claude.text) # Span(claude.text) \/ srv.route = "route") => srv.method = 2

C9_Witness ==
  /\ AnsweredText
  /\ srv.route = "route"
  /\ claude.text = << "p", "{", "}", "p" >>
  /\ response.status = 200
  /\ response.body.results = << "{", "}" >>
  /\ srv.method = 2

\* no object can be taken from the text: it has no '{' with a '}' after it,
\* or the part from the first '{' to the last '}' is no JSON
NoObjectIn(t) ==
  LET opens == { i \in 1..Len(t) : t[i] = "{" }
      closes == { i \in 1..Len(t) : t[i] = "}" }
  IN  \/ opens = {}
      \/ closes = {}
      \/ Max(closes) < Min(opens)
      \/ ~JSONParse(SubSeq(t, Min(opens), Max(closes))).ok

\* C10: when the model returns no text block, an empty text or a text from
\* which no object can be parsed, every route answers with an error body and
\* a status that is not 200, never with a success body or a results value.
C10_UnparsableIsAnError ==
  (/\ srv.pc = "responded"
   /\ \/ claude.kind = "notext"
      \/ (claude.kind = "text" /\ NoObjectIn(claude.text)))
    => /\ response.status \in {400, 402, 413, 500}
       /\ DOMAIN response.body = {"error"}

C10_Witness ==
  /\ AnsweredText
  /\ srv.route = "blob"
  /\ claude.text = << >>
  /\ response.status = 500
  /\ response.body = [error |-> MsgNoParse]

AnalyzeRoutes == {"route", "blob", "form5", "form11"}

\* the handler of an analyze route has answered
Answered == srv.pc = "responded" /\ srv.route \in AnalyzeRoutes

\* a parsed value that is an object with at least one member (a member is
\* all the lexemes tell of an overallStatus); the object {} has none
HasOverallStatus(value) == Len(value) >= 2 /\ value[1] = "{" /\ value[2] = "k"

\* C11: every result an analyze route returns with success: true carries an
\* overall status; a parsed object without one is answered with an error.
C11_AcceptedResultsHaveShape ==
  (Answered /\ response.status = 200) => HasOverallStatus(response.body.results)

\* C13: when the model's text is not empty and neither the whole text nor a
\* brace-to-brace match gives a result, the error the route returns carries
\* the beginning of that text.
C13_ErrorCarriesResponsePrefix ==
  (/\ Answered
   /\ claude.kind = "text"
   /\ trim(claude.text) # << >>
   /\ ~RegexMatch(trim(claude.text)).found)
    => /\ DOMAIN response.body = {"error"}
       /\ includes(response.body.error, Prefix100(trim(claude.text)))

\* C14: in every analyze route, a failure whose message contains 'credit
\* balance' in any letter case is answered with status 402 and the fixed
\* add-credits message.
C14_CreditBalanceIs402 ==
  (/\ Answered
   /\ claude.kind = "throws"
   /\ claude.thrown.isError
   /\ includes(toLowerCase(claude.thrown.message), << "credit", "balance" >>))
    => response = ErrorResponse(402, MsgAddCredits)

FormRoutes == {"route", "form5", "form11"}

\* a form that can be read, with a pdf field and a projectType that is
\* absent or an object
WellFormedForm(req) ==
  req.readable /\ req.hasPdf /\ req.projectType.kind \in {"absent", "object"}

\* C15: every route that takes the PDF in a form answers a pdf above the
\* ceiling (11 MB is the largest ceiling any of them has) with 413 and does
\* not call the model.
C15_FormRoutesEnforceCeiling ==
  [][ (/\ srv.pc = "received"
       /\ srv.route \in FormRoutes
       /\ WellFormedForm(request)
       /\ request.size > MAX_FILE_SIZE_MB * MiB)
        => (response'.status = 413 /\ ~srv'.modelCalled) ]_vars

\* the required input of the request a route received is absent: the pdf
\* field of a form, the blobUrl of a body
InputAbsent ==
  /\ srv.pc = "received"
  /\ request.readable
  /\ \/ srv.route \in FormRoutes \cup {"upload"} /\ ~request.hasPdf
     \/ srv.route = "blob" /\ request.blobUrl = ""

\* C16: a request without its required input is answered with 400, and the
\* handler contacts neither the blob store nor the model, whatever the other
\* fields of the request are.
C16_AbsentInputIs400 ==
  [][ InputAbsent
        => /\ srv'.pc = "responded"
           /\ response'.status = 400
           /\ ~srv'.fetched /\ ~srv'.put /\ ~srv'.modelCalled ]_vars

\* C17: whatever fails inside a handler (a request body that cannot be read
\* included), the handler returns a response; a response that is not a
\* success has a body {error} and a status.  No handler ends by throwing.
C17_NoExceptionEscapes ==
  /\ srv.pc # "threw"
  /\ (srv.pc = "responded" /\ response.status # 200)
       => (DOMAIN response.body = {"error"} /\ response.status \in {400, 402, 413, 500})

\* C18: every response of an analyze route is either a success body (status
\* 200, success = true, a filename and a results value that is an object) or
\* an error body with nothing but an error text and a status among 400, 402,
\* 413 and 500; none carries both results and error.
C18_ResponseIsSuccessOrError ==
  Answered =>
    \/ /\ response.status = 200
       /\ DOMAIN response.body = {"success", "filename", "results"}
       /\ response.body.success = TRUE
       /\ response.body.filename # ""
       /\ JSONParse(response.body.results).ok
       /\ StartsWithBrace(response.body.results)
    \/ /\ response.status \in {400, 402, 413, 500}
       /\ DOMAIN response.body = {"error"}

C18_Witness ==
  /\ Answered
  /\ srv.route = "blob"
  /\ claude.kind = "throws"
  /\ response = ErrorResponse(402, MsgAddCredits)

\* C23: a run whose blob upload fails has sent no analyze request, has made
\* one upload, and shows the message of what the upload threw; a blob-URL
\* request whose PDF the store answers with a status that is not OK is
\* answered with 'Failed to fetch PDF from storage' and the model is not
\* called.
C23_StorageFailureStops ==
  /\ [][ (run.pc = "uploading" /\ run'.pc = "failed")
           => /\ run'.failedAt = "upload"
              /\ run'.uploads = 1 /\ run'.requests = 0
              /\ step' = "upload"
              /\ run'.thrown.isError => error' = Message(run'.thrown.message) ]_vars
  /\ []( (run.pc = "failed" /\ run.failedAt = "upload") => run.requests = 0 )
  /\ [][ (/\ srv.pc = "received" /\ srv.route = "blob"
           /\ request.readable /\ request.blobUrl # "" /\ request.fetch = "not ok")
           => /\ srv'.pc = "responded"
              /\ srv'.fetched /\ ~srv'.modelCalled
              /\ modelCall' = NoCall
              /\ response'.status = 500
              /\ response'.body = [error |-> MsgFetchFailed] ]_vars

C23_Witness ==
  /\ srv.pc = "responded"
  /\ srv.route = "blob"
  /\ srv.fetched /\ ~srv.modelCalled
  /\ response = [status |-> 500, body |-> [error |-> MsgFetchFailed]]

\* C27: an answer to a text of the model from which no object can be
\* parsed never has status 413 or 402, whatever the text says.
C27_TextDoesNotChooseStatus ==
  (AnsweredText /\ NoObjectIn(claude.text)) => response.status \notin {413, 402}

\* the flags a handler reads from the projectType of a request
RequestFlags(req) == IF req.projectType.kind = "object" THEN req.projectType.flags ELSE NoAnswers

\* C28: the text a handler sends to the model starts with the checklist
\* prompt; it has the 'PROJECT CONTEXT:' section iff isBacklit, hasCutouts or
\* hasCorners is set; its hints are those of the set flags in the order
\* backlit, cutouts, corners; and the same request with hasLogos negated
\* gives the same text.
C28_InstructionFromThreeFlags ==
  [][ (srv.pc = "received" /\ srv'.pc = "calling")
        => LET f == RequestFlags(request)
               text == modelCall'
               hints == << [on |-> f.isBacklit, hint |-> HintBacklit],
                           [on |-> f.hasCutouts, hint |-> HintCutouts],
                           [on |-> f.hasCorners, hint |-> HintCorners] >>
               wanted == SelectSeq(hints, LAMBDA h : h.on)
               rest == SubSeq(text, 2, Len(text))
               sent == SelectSeq(rest, LAMBDA w : w \notin {"\n\nPROJECT CONTEXT:",
                         "\n\nREMEMBER: Output ONLY the JSON object. No other text."})
           IN  /\ text[1] = "CHECKLIST_PROMPT"
               /\ (\E i \in 1..Len(text) : text[i] = "\n\nPROJECT CONTEXT:")
                    <=> (f.isBacklit \/ f.hasCutouts \/ f.hasCorners)
               /\ sent = [i \in 1..Len(wanted) |-> wanted[i].hint]
               /\ sent # << >> => text[2] = "\n\nPROJECT CONTEXT:"
               /\ text = Instruction(contextNote([f EXCEPT !.hasLogos = ~f.hasLogos]),
                                      srv'.route # "route") ]_vars

C28_Witness ==
  /\ srv.pc = "calling"
  /\ srv.route = "route"
  /\ modelCall = << "CHECKLIST_PROMPT", "\n\nPROJECT CONTEXT:", HintBacklit, HintCorners >>

\* C29: for the text the model returned, the extraction of route.ts (the
\* regex alone, on the text as it is) and the extraction of the other
\* routes (the whole trimmed text, then the regex) either both give a result,
\* and then the same one, or both throw; and the answer of the route that
\* ran is a success with that result in the first case, an error in the
\* second.
C29_ExtractionsAgree ==
  AnsweredText =>
    LET regexOnly == RegexExtract(claude.text)
        twoStep == RequireResults(TwoStepExtract(trim(claude.text)), MsgNoParse)
        accepted == regexOnly.thrown = Nothing
    IN  /\ accepted <=> twoStep.thrown = Nothing
        /\ accepted => (regexOnly.results.defined /\ regexOnly.results = twoStep.results)
        /\ accepted <=> response.status = 200
        /\ accepted => response.body.results = regexOnly.results.value
        /\ accepted => response.body.results = twoStep.results.value

C29_Witness ==
  /\ AnsweredText
  /\ srv.route = "form11"
  /\ claude.text = << "{", "k", "{", "}", "}" >>
  /\ srv.method = 1
  /\ response.status = 200
  /\ response.body.results = RegexExtract(claude.text).results.value

====
